---------------------------- MODULE Spec2Model ----------------------------
(***************************************************************************)
(* Model of the event-sourced tree table: the TreeTableSheet component     *)
(* (record collection, column schema, expansion set, drag state, the       *)
(* dispatchEvent reducer and the UI handlers) and the helpers of           *)
(* utils/treeHelpers.ts.                                                    *)
(*                                                                         *)
(* JavaScript values are tagged records, so that === between values of     *)
(* different types is defined and false.  A record of the collection is a  *)
(* function from field names to JavaScript values.  A dotted field path is *)
(* represented by the list of its segments (the result of path.split('.')).*)
(***************************************************************************)
EXTENDS Integers, Sequences, FiniteSets, TLC

VARIABLES
  items,         \* useState items: the flat record collection
  columns,       \* useState columns: the column schema
  expandedIds,   \* useState expandedIds
  visibleRows,   \* useMemo visibleRows: the rows of the last render
  draggedId,     \* useState draggedId
  dropTargetId,  \* useState dropTargetId
  dropPosition,  \* useState dropPosition
  events,        \* the calls of onEvent, oldest first
  pending,       \* events whose optimistic update React has queued but not yet applied
  lastCommit,    \* the optimistic update that produced items: its event and the collection it was applied to
  uuidCount,     \* number of ids drawn from uuidv4
  propChanges,   \* number of times the host replaced the data prop
  crashed,       \* an updater or a render threw: React unmounted the component
  call,          \* a call of a helper of utils/treeHelpers.ts: its arguments and, once it returned, its results
  mode,          \* the mode prop: 'edit' or 'read-only'
  agent          \* AIAgentSidebar: input, isProcessing and the handleSend calls under way

vars == <<items, columns, expandedIds, visibleRows, draggedId, dropTargetId, dropPosition,
          events, pending, lastCommit, uuidCount, propChanges, crashed, call, mode, agent>>

----------------------------------------------------------------------------
(* Bounds *)

MaxCreated == 1      \* ids drawn from uuidv4
MaxEvents == 2       \* events emitted in one behaviour
MaxPending == 2      \* updates queued between two renders
MaxPropChanges == 1  \* replacements of the data prop by the host

----------------------------------------------------------------------------
(* JavaScript values *)

Undefined == [k |-> "undefined"]
Null == [k |-> "null"]
Str(s) == [k |-> "string", s |-> s]
Num(n) == [k |-> "number", n |-> n]

\* JavaScript truthiness (ToBoolean)
Truthy(v) ==
  CASE v.k = "undefined" -> FALSE
    [] v.k = "null" -> FALSE
    [] v.k = "string" -> v.s # ""
    [] v.k = "number" -> v.n # 0
    [] OTHER -> TRUE

\* obj[key]
Prop(obj, key) == IF key \in DOMAIN obj THEN obj[key] ELSE Undefined

\* { ...obj, [key]: value }
Put(obj, key, value) ==
  [f \in (DOMAIN obj) \cup {key} |-> IF f = key THEN value ELSE obj[f]]

Range(s) == {s[i] : i \in DOMAIN s}

Last(s) == s[Len(s)]

\* Array.prototype.filter, keeping the positions: the indices of s that pass
\* Test, in increasing order
FilterIdx(s, Test(_)) ==
  LET pass == {i \in DOMAIN s : Test(s[i])}
  IN [j \in 1..Cardinality(pass) |->
        CHOOSE i \in pass : Cardinality({m \in pass : m < i}) = j - 1]

Filter(s, Test(_)) ==
  LET idx == FilterIdx(s, Test)
  IN [j \in DOMAIN idx |-> s[idx[j]]]

\* Array.prototype.splice(at, 0, x) on a copy; at is a 0-based index
Splice(s, at, x) ==
  [j \in 1..(Len(s) + 1) |->
     IF j <= at THEN s[j] ELSE IF j = at + 1 THEN x ELSE s[j - 1]]

----------------------------------------------------------------------------
(* utils/treeHelpers.ts *)

\* The keys of itemMap, last inserted first
MapKeysLastFirst(its) ==
  LET first == FilterIdx([i \in DOMAIN its |-> i],
                 LAMBDA i : \A j \in 1..(i - 1) : Prop(its[j], "id") # Prop(its[i], "id"))
  IN [j \in DOMAIN first |-> Prop(its[first[Len(first) + 1 - j]], "id")]

\* The keys of itemMap in Map iteration order: first insertion of each id
MapKeys(its) ==
  LET first == FilterIdx([i \in DOMAIN its |-> i],
                 LAMBDA i : \A j \in 1..(i - 1) : Prop(its[j], "id") # Prop(its[i], "id"))
  IN [j \in DOMAIN first |-> Prop(its[first[j]], "id")]

\* itemMap.get(key): Map.set overwrites, so the last record with that id wins
MapGet(its, key) ==
  LET idx == {i \in DOMAIN its : Prop(its[i], "id") = key}
  IN its[CHOOSE i \in idx : \A j \in idx : j <= i]

\* A buildTree that discards the nodes whose parent is not in itemMap
buildTreeWithoutOrphans(its, rootId) ==
  LET keys == MapKeys(its)
      keySet == Range(keys)
      parentOf(key) == Prop(MapGet(its, key), "parentId")
      isRoot(key) == parentOf(key) = rootId
      isChildOf(key, p) == parentOf(key) # rootId /\ parentOf(key) = p
  IN [roots |-> Filter(keys, isRoot),
      children |-> [p \in keySet |-> Filter(keys, LAMBDA key : isChildOf(key, p))],
      node |-> [key \in keySet |-> MapGet(its, key)]]

buildTree(its, rootId) ==
  LET keys == MapKeys(its)
      keySet == Range(keys)
      parentOf(key) == Prop(MapGet(its, key), "parentId")
      isRoot(key) == \/ parentOf(key) = rootId
                     \/ parentOf(key) \notin keySet /\ rootId = Null
      isChildOf(key, p) == parentOf(key) # rootId /\ parentOf(key) = p
  IN [roots |-> Filter(keys, isRoot),
      children |-> [p \in keySet |-> Filter(keys, LAMBDA key : isChildOf(key, p))],
      node |-> [key \in keySet |-> MapGet(its, key)]]

\* A flattenVisibleTree that descends into the children of every node
RECURSIVE flattenVisibleTreeAll(_, _, _, _)
flattenVisibleTreeAll(tree, nodes, expanded, depth) ==
  IF nodes = <<>> THEN <<>>
  ELSE LET node == Head(nodes)
           ch == tree.children[node]
       IN <<[id |-> node, depth |-> depth, node |-> tree.node[node],
              hasChildren |-> Len(ch) > 0]>>
          \o flattenVisibleTreeAll(tree, ch, expanded, depth + 1)
          \o flattenVisibleTreeAll(tree, Tail(nodes), expanded, depth)

\* A flattenVisibleTree that emits the children of a node before the node
RECURSIVE flattenVisibleTreeChildrenFirst(_, _, _, _)
flattenVisibleTreeChildrenFirst(tree, nodes, expanded, depth) ==
  IF nodes = <<>> THEN <<>>
  ELSE LET node == Head(nodes)
           ch == tree.children[node]
       IN (IF node \in expanded /\ Len(ch) > 0
           THEN flattenVisibleTreeChildrenFirst(tree, ch, expanded, depth + 1)
           ELSE <<>>)
          \o <<[id |-> node, depth |-> depth, node |-> tree.node[node],
                 hasChildren |-> Len(ch) > 0]>>
          \o flattenVisibleTreeChildrenFirst(tree, Tail(nodes), expanded, depth)

RECURSIVE flattenVisibleTree(_, _, _, _)
flattenVisibleTree(tree, nodes, expanded, depth) ==
  IF nodes = <<>> THEN <<>>
  ELSE LET node == Head(nodes)
           ch == tree.children[node]
       IN <<[id |-> node, depth |-> depth, node |-> tree.node[node],
              hasChildren |-> Len(ch) > 0]>>
          \o (IF node \in expanded /\ Len(ch) > 0
              THEN flattenVisibleTree(tree, ch, expanded, depth + 1)
              ELSE <<>>)
          \o flattenVisibleTree(tree, Tail(nodes), expanded, depth)

RECURSIVE ConcatAll(_)
ConcatAll(ss) == IF ss = <<>> THEN <<>> ELSE Head(ss) \o ConcatAll(Tail(ss))

\* findAllDescendants with the call depth made explicit.  A call chain longer
\* than the collection revisits a record, so the JavaScript recursion never
\* returns (it ends in a stack overflow): ok = FALSE.
RECURSIVE DescendantsWithin(_, _, _)
DescendantsWithin(its, targetId, fuel) ==
  LET children == Filter(its, LAMBDA i : Prop(i, "parentId") = targetId)
      ids == [j \in DOMAIN children |-> Prop(children[j], "id")]
      sub == [j \in DOMAIN children |-> DescendantsWithin(its, ids[j], fuel - 1)]
  IN IF children = <<>> THEN [ok |-> TRUE, ids |-> <<>>]
     ELSE IF fuel = 0 THEN [ok |-> FALSE, ids |-> <<>>]
     ELSE IF \E j \in DOMAIN children : ~sub[j].ok THEN [ok |-> FALSE, ids |-> <<>>]
     ELSE [ok |-> TRUE, ids |-> ids \o ConcatAll([j \in DOMAIN children |-> sub[j].ids])]

\* A findAllDescendants that stops at the children of the target
findAllDescendantsOneLevel(its, targetId) ==
  LET children == Filter(its, LAMBDA i : Prop(i, "parentId") = targetId)
  IN [j \in DOMAIN children |-> Prop(children[j], "id")]

findAllDescendants(its, targetId) == DescendantsWithin(its, targetId, Len(its)).ids

findAllDescendantsReturns(its, targetId) == DescendantsWithin(its, targetId, Len(its)).ok

\* Objects live in a heap: a sequence of objects, each a function from keys
\* to values; a value that is an object is a reference to its address.
Ref(a) == [k |-> "ref", a |-> a]

\* The characters of the strings that occur as values on a path
StrChars(s) ==
  CASE s = "" -> <<>>
    [] s = "ab" -> <<"a", "b">>
    [] s \in {"x", "1", "2"} -> <<s>>

\* The property names of the indices 0, 1
IndexKeys == <<"0", "1">>

\* The own enumerable properties of a string: its characters by index
StrOwn(s) ==
  LET chars == StrChars(s)
  IN [key \in {IndexKeys[i] : i \in DOMAIN chars} |->
        Str(chars[CHOOSE i \in DOMAIN chars : IndexKeys[i] = key])]

\* "s"[key]: a character, the length, or undefined
StrProp(s, key) ==
  IF key \in DOMAIN StrOwn(s) THEN StrOwn(s)[key]
  ELSE IF key = "length" THEN Num(Len(StrChars(s)))
  ELSE Undefined

\* { ...v }: the own enumerable properties of v; none for undefined, null and
\* numbers
Spread(heap, v) ==
  CASE v.k = "ref" -> heap[v.a]
    [] v.k = "string" -> StrOwn(v.s)
    [] OTHER -> <<>>

\* The loop of setByPath and its last assignment, from the object at cur
RECURSIVE setByPathFrom(_, _, _, _)
setByPathFrom(heap, cur, parts, value) ==
  IF Len(parts) = 1
  THEN [heap EXCEPT ![cur] = Put(heap[cur], parts[1], value)]
  ELSE LET fresh == Len(heap) + 1
           copy == Spread(heap, Prop(heap[cur], parts[1]))
       IN setByPathFrom(Append([heap EXCEPT ![cur] = Put(heap[cur], parts[1], Ref(fresh))],
                               copy),
                        fresh, Tail(parts), value)

\* A setByPath that walks into the existing nested objects and writes there
RECURSIVE setByPathFromInPlace(_, _, _, _)
setByPathFromInPlace(heap, cur, parts, value) ==
  IF Len(parts) = 1
  THEN [heap EXCEPT ![cur] = Put(heap[cur], parts[1], value)]
  ELSE LET old == Prop(heap[cur], parts[1])
           fresh == Len(heap) + 1
       IN IF old.k = "ref"
          THEN setByPathFromInPlace(heap, old.a, Tail(parts), value)
          ELSE setByPathFromInPlace(
                 Append([heap EXCEPT ![cur] = Put(heap[cur], parts[1], Ref(fresh))],
                        Spread(heap, old)),
                 fresh, Tail(parts), value)

setByPathInPlace(heap, obj, parts, value) ==
  LET newObj == Len(heap) + 1
  IN [heap |-> setByPathFromInPlace(Append(heap, heap[obj]), newObj, parts, value),
      result |-> newObj]

\* setByPath on the heap: newObj = { ...obj }, then the loop; the result is
\* the address of newObj
setByPathInHeap(heap, obj, parts, value) ==
  LET newObj == Len(heap) + 1
  IN [heap |-> setByPathFrom(Append(heap, heap[obj]), newObj, parts, value),
      result |-> newObj]

\* A value with its nested objects written out, and the same value placed in
\* a heap
RECURSIVE Deref(_, _)
Deref(heap, v) ==
  IF v.k = "ref"
  THEN [k |-> "object", f |-> [key \in DOMAIN heap[v.a] |-> Deref(heap, heap[v.a][key])]]
  ELSE v

RECURSIVE Load(_, _)
RECURSIVE LoadFields(_, _, _, _)
LoadFields(heap, f, keys, acc) ==
  IF keys = {} THEN [heap |-> heap, f |-> acc]
  ELSE LET key == CHOOSE x \in keys : TRUE
           r == Load(heap, f[key])
       IN LoadFields(r.heap, f, keys \ {key}, Put(acc, key, r.v))

Load(heap, v) ==
  IF v.k = "object"
  THEN LET r == LoadFields(heap, v.f, DOMAIN v.f, <<>>)
       IN [heap |-> Append(r.heap, r.f), v |-> Ref(Len(r.heap) + 1)]
  ELSE [heap |-> heap, v |-> v]

\* A setByPath that sets the first segment only
setByPathFlat(obj, parts, value) == Put(obj, parts[1], value)

\* setByPath on values: the record it returns for the record obj
setByPath(obj, parts, value) ==
  LET o == Load(<<>>, [k |-> "object", f |-> obj])
      v == Load(o.heap, value)
      r == setByPathInHeap(v.heap, o.v.a, parts, v.v)
  IN Deref(r.heap, Ref(r.result)).f

\* acc[part]: a property of an object or of a string; undefined on a number
Member(acc, part) ==
  CASE acc.k = "object" -> Prop(acc.f, part)
    [] acc.k = "string" -> StrProp(acc.s, part)
    [] OTHER -> Undefined

\* getByPath: reduce((acc, part) => acc && acc[part], obj)
RECURSIVE getByPathFrom(_, _)
getByPathFrom(acc, parts) ==
  IF parts = <<>> THEN acc
  ELSE IF ~Truthy(acc) THEN acc
  ELSE getByPathFrom(Member(acc, parts[1]), Tail(parts))

getByPath(obj, parts) == getByPathFrom([k |-> "object", f |-> obj], parts)

----------------------------------------------------------------------------
(* Inputs *)

\* The records of the demo collection the host supplies (ids '1', '1-1', '2')
Rec(id, parentId) == [f \in {"id", "parentId"} |-> IF f = "id" THEN id ELSE parentId]

Scenario == <<Rec(Str("1"), Null), Rec(Str("1-1"), Str("1")), Rec(Str("2"), Null)>>

\* The collections the host passes as the data prop
HostData == {<<>>, Scenario}

\* uuidv4(): the n-th id drawn is fresh
UuidPool == <<Str("u1"), Str("u2"), Str("u3"), Str("u4")>>

uuidv4(n) == UuidPool[n + 1]

\* Texts a user types into a text input
CellTexts == {"2", "x"}

NameTexts == {"x"}

\* Column descriptors the schema editor can save: a field path and a type
Column(field, type) == [field |-> field, type |-> type]

ColumnChoices == {Column(<<"id">>, "text")}

NewConfigs == {<<>>} \cup {<<c>> : c \in ColumnChoices}

\* The configurations the host passes as the columns prop (default [])
HostColumns == NewConfigs

\* Pointer offsets within a row of height RowHeight
RowHeight == 20

PointerYs == {0, 10, 20}

----------------------------------------------------------------------------
(* TreeTableSheet: derived data *)

Event(type, payload) == [type |-> type, payload |-> payload]

\* No helper call is under way
NoCall == [fn |-> "none"]

NoCommit == [ev |-> Event("NONE", <<>>), prev |-> <<>>]

\* tree = buildTree(items); visibleRows = flattenVisibleTree(tree, expandedIds)
Render(its, expanded) ==
  LET tree == buildTree(its, Null)
  IN flattenVisibleTree(tree, tree.roots, expanded, 0)

\* row[rowKey] of the rendered rows
RowIds == {visibleRows[i].id : i \in DOMAIN visibleRows}

Rows == Range(visibleRows)

\* Array.prototype.find on the id: the first record with that id
HasItem(its, id) == \E i \in DOMAIN its : Prop(its[i], "id") = id

FindItem(its, id) ==
  its[CHOOSE i \in DOMAIN its :
        /\ Prop(its[i], "id") = id
        /\ \A j \in 1..(i - 1) : Prop(its[j], "id") # id]

----------------------------------------------------------------------------
(* dispatchEvent: the optimistic updates *)

\* NODE_MOVED: the indices of rest whose parentId is newParentId
SiblingsIndices(rest, newParentId) ==
  FilterIdx(rest, LAMBDA i : Prop(i, "parentId") = newParentId)

\* siblingsIndices[newIndex] is undefined for a negative index: reading .idx throws
MoveThrows(prev, p) ==
  /\ HasItem(prev, p.nodeId)
  /\ LET rest == Filter(prev, LAMBDA i : Prop(i, "id") # p.nodeId)
         sib == SiblingsIndices(rest, p.newParentId)
     IN Len(sib) # 0 /\ p.newIndex < Len(sib) /\ p.newIndex < 0

\* A move that always puts the node at the end of the collection
MoveItemsAtEnd(prev, p) ==
  IF ~HasItem(prev, p.nodeId) THEN prev
  ELSE Append(Filter(prev, LAMBDA i : Prop(i, "id") # p.nodeId),
              Put(FindItem(prev, p.nodeId), "parentId", p.newParentId))

\* A move that inserts after the sibling at newIndex, not before it
MoveItemsAfter(prev, p) ==
  IF ~HasItem(prev, p.nodeId) THEN prev
  ELSE LET rest == Filter(prev, LAMBDA i : Prop(i, "id") # p.nodeId)
           updatedItem == Put(FindItem(prev, p.nodeId), "parentId", p.newParentId)
           sib == SiblingsIndices(rest, p.newParentId)
       IN IF Len(sib) = 0 THEN Append(rest, updatedItem)
          ELSE IF p.newIndex >= Len(sib) THEN Splice(rest, sib[Len(sib)], updatedItem)
          ELSE Splice(rest, sib[p.newIndex + 1], updatedItem)

MoveItems(prev, p) ==
  IF ~HasItem(prev, p.nodeId) THEN prev
  ELSE LET movedItem == FindItem(prev, p.nodeId)
           rest == Filter(prev, LAMBDA i : Prop(i, "id") # p.nodeId)
           updatedItem == Put(movedItem, "parentId", p.newParentId)
           sib == SiblingsIndices(rest, p.newParentId)
           \* 0-based insertIndex; sib holds 1-based positions
           insertIndex == IF p.newIndex >= Len(sib)
                          THEN (sib[Len(sib)] - 1) + 1
                          ELSE sib[p.newIndex + 1] - 1
       IN IF Len(sib) = 0 THEN Append(rest, updatedItem)
          ELSE Splice(rest, insertIndex, updatedItem)

\* An update that is applied to every record, whatever its id
UpdateItemsAll(prev, p) ==
  [i \in DOMAIN prev |-> setByPath(prev[i], p.field, p.newValue)]

UpdateItems(prev, p) ==
  [i \in DOMAIN prev |->
     IF Prop(prev[i], "id") = p.nodeId
     THEN setByPath(prev[i], p.field, p.newValue)
     ELSE prev[i]]

\* A create in which the id and parentId of initialData win
CreateItemsInitialDataLast(prev, p) ==
  Append(prev, [f \in DOMAIN p.initialData \cup {"id", "parentId"} |->
                  IF f \in DOMAIN p.initialData THEN p.initialData[f]
                  ELSE IF f = "id" THEN p.nodeId ELSE p.parentId])

CreateItems(prev, p) ==
  Append(prev, Put(Put(p.initialData, "id", p.nodeId), "parentId", p.parentId))

\* A delete that removes the target only
DeleteItemsTargetOnly(prev, p) ==
  Filter(prev, LAMBDA i : Prop(i, "id") # p.targetNodeId)

DeleteItems(prev, p) ==
  Filter(prev, LAMBDA i : Prop(i, "id") \notin Range(p.allRemovedNodeIds))

\* An import that takes an empty config for a missing one
ImportColumnsIfNonEmpty(prevColumns, p) ==
  IF p.hasConfig /\ p.config # <<>> THEN p.config ELSE prevColumns

\* if (payload.config) setColumns(payload.config): an array, also the empty
\* one, is truthy
ImportColumns(prevColumns, p) ==
  IF p.hasConfig THEN p.config ELSE prevColumns

\* The state after the updates one event queues are applied; threw: an updater
\* threw, or items became undefined and the next render threw
ApplyEvent(st, ev) ==
  LET p == ev.payload
      base == [st EXCEPT !.prev = st.items, !.last = ev]
  IN CASE ev.type = "NODE_DATA_UPDATED" -> [base EXCEPT !.items = UpdateItems(st.items, p)]
       [] ev.type = "NODE_MOVED" ->
            IF MoveThrows(st.items, p) THEN [base EXCEPT !.threw = TRUE]
            ELSE [base EXCEPT !.items = MoveItems(st.items, p)]
       [] ev.type = "NODE_CREATED" ->
            [base EXCEPT !.items = CreateItems(st.items, p),
                         !.expandedIds = IF Truthy(p.parentId)
                                         THEN st.expandedIds \cup {p.parentId}
                                         ELSE st.expandedIds]
       [] ev.type = "NODE_DELETED" -> [base EXCEPT !.items = DeleteItems(st.items, p)]
       [] ev.type = "COLUMN_CONFIG_UPDATED" -> [base EXCEPT !.columns = p.newConfig]
       [] ev.type = "IMPORT_COMPLETED" ->
            IF ~p.hasData THEN [base EXCEPT !.threw = TRUE]
            ELSE [base EXCEPT !.items = p.data,
                              !.columns = ImportColumns(st.columns, p)]

\* React applies the queued updates in order; nothing after a throw
RECURSIVE ApplyAll(_, _)
ApplyAll(st, evs) ==
  IF evs = <<>> \/ st.threw THEN st
  ELSE ApplyAll(ApplyEvent(st, Head(evs)), Tail(evs))

\* The render that applies the queued updates evs, then the handler's own
\* setExpandedIds(add) and drag-state updates
Commit(evs, alsoExpand, drag) ==
  LET r == ApplyAll([items |-> items, columns |-> columns, expandedIds |-> expandedIds,
                     threw |-> FALSE, prev |-> lastCommit.prev, last |-> lastCommit.ev],
                    evs)
  IN /\ lastCommit' = [ev |-> r.last, prev |-> r.prev]
     /\ pending' = <<>>
     /\ IF r.threw
        THEN /\ crashed' = TRUE
             /\ items' = <<>>
             /\ columns' = <<>>
             /\ expandedIds' = {}
             /\ visibleRows' = <<>>
             /\ draggedId' = Null
             /\ dropTargetId' = Null
             /\ dropPosition' = Null
        ELSE /\ crashed' = crashed
             /\ items' = r.items
             /\ columns' = r.columns
             /\ expandedIds' = r.expandedIds \cup alsoExpand
             /\ visibleRows' = Render(r.items, r.expandedIds \cup alsoExpand)
             /\ draggedId' = drag[1]
             /\ dropTargetId' = drag[2]
             /\ dropPosition' = drag[3]

SameDrag == <<draggedId, dropTargetId, dropPosition>>

NoDrag == <<Null, Null, Null>>

\* dispatchEvent called from a React event handler: onEvent(event), then the
\* queued update is applied by the render that follows the handler
dispatchEvent(type, payload, alsoExpand, drag) ==
  /\ Len(events) < MaxEvents
  /\ events' = Append(events, Event(type, payload))
  /\ Commit(<<Event(type, payload)>>, alsoExpand, drag)

----------------------------------------------------------------------------
(* TreeTableSheet: handlers, each followed by the render React runs after a
   discrete event *)

\* value || ''
OrEmpty(v) == IF Truthy(v) THEN v ELSE Str("")

\* A drop-zone policy whose thresholds belong to the outer zones
DropZoneClosed(y, height) ==
  IF 100 * y <= 35 * height THEN "before"
  ELSE IF 100 * y >= 65 * height THEN "after"
  ELSE "inside"

\* The drop-zone policy of handleDragOver over integers: y < 0.35 * height
\* is 100 * y < 35 * height
DropZone(y, height) ==
  IF 100 * y < 35 * height THEN "before"
  ELSE IF 100 * y > 65 * height THEN "after"
  ELSE "inside"

\* No request has ended yet
NoRun == [reason |-> "none", modelCalls |-> 0, toolsRun |-> 0, toolErrors |-> 0]

\* AIAgentSidebar after mounting: useState('') for input, useState([]) for
\* history (its length), useState(false) for isProcessing, no handleSend call
\* under way
AgentInit ==
  [input |-> <<>>, history |-> 0, isProcessing |-> FALSE, runs |-> <<>>,
   accepted |-> 0, refusedBusy |-> 0, lastRun |-> NoRun]

\* The values of the mode prop
Modes == {"edit", "read-only"}

Init ==
  /\ items \in HostData
  /\ columns \in HostColumns
  /\ expandedIds = {}
  /\ visibleRows = Render(items, {})
  /\ draggedId = Null
  /\ dropTargetId = Null
  /\ dropPosition = Null
  /\ events = <<>>
  /\ pending = <<>>
  /\ lastCommit = NoCommit
  /\ uuidCount = 0
  /\ propChanges = 0
  /\ crashed = FALSE
  /\ call = NoCall
  /\ mode \in Modes
  /\ agent = AgentInit

\* A toggle that expands or collapses the parent of the row
handleToggleExpandParent(row) ==
  /\ ~crashed
  /\ row.hasChildren
  /\ expandedIds' = IF row.node.parentId \in expandedIds
                    THEN expandedIds \ {row.node.parentId}
                    ELSE expandedIds \cup {row.node.parentId}
  /\ visibleRows' = Render(items, expandedIds')
  /\ UNCHANGED <<items, columns, draggedId, dropTargetId, dropPosition,
                 events, pending, lastCommit, uuidCount, propChanges, crashed, call, mode, agent>>

\* The expander button of a row without children takes no pointer events
handleToggleExpand(row) ==
  /\ ~crashed
  /\ row.hasChildren
  /\ expandedIds' = IF row.id \in expandedIds THEN expandedIds \ {row.id}
                    ELSE expandedIds \cup {row.id}
  /\ visibleRows' = Render(items, expandedIds')
  /\ UNCHANGED <<items, columns, draggedId, dropTargetId, dropPosition,
                 events, pending, lastCommit, uuidCount, propChanges, crashed, call, mode, agent>>

\* The event handleCellChange emits
CellChangeEvent(nodeId, field, value) ==
  Event("NODE_DATA_UPDATED",
        [nodeId |-> nodeId, field |-> field,
         oldValue |-> IF HasItem(items, nodeId)
                      THEN getByPath(FindItem(items, nodeId), field)
                      ELSE Undefined,
         newValue |-> value])

handleCellChange(nodeId, field, value) ==
  /\ dispatchEvent("NODE_DATA_UPDATED", CellChangeEvent(nodeId, field, value).payload,
                   {}, SameDrag)
  /\ UNCHANGED <<uuidCount, propChanges, call, mode, agent>>

\* TreeRow.handleNameBlur on a rendered row
handleNameBlur(row, localName) ==
  /\ ~crashed
  /\ Str(localName) # OrEmpty(Prop(row.node, "name"))
  /\ handleCellChange(row.id, <<"name">>, Str(localName))

\* The characters of the texts of a cell
Alphabet == {"0", "1", "2", "x", "-"}

MaxTextLen == 3

RECURSIVE Join(_)
Join(cs) == IF cs = <<>> THEN "" ELSE Head(cs) \o Join(Tail(cs))

\* The characters of a text of at most MaxTextLen characters
TextChars(text) ==
  CHOOSE cs \in UNION {[1..n -> Alphabet] : n \in 0..MaxTextLen} : Join(cs) = text

Digits == <<"0", "1", "2", "3", "4", "5", "6", "7", "8", "9">>

IsDigit(c) == \E d \in DOMAIN Digits : Digits[d] = c

DigitValue(c) == (CHOOSE d \in DOMAIN Digits : Digits[d] = c) - 1

\* The number of leading digits of cs
RECURSIVE DigitPrefix(_)
DigitPrefix(cs) ==
  IF cs # <<>> /\ IsDigit(Head(cs)) THEN 1 + DigitPrefix(Tail(cs)) ELSE 0

\* The value of a sequence of digits, most significant first
RECURSIVE DigitsValue(_)
DigitsValue(cs) ==
  IF cs = <<>> THEN 0
  ELSE 10 * DigitsValue(SubSeq(cs, 1, Len(cs) - 1)) + DigitValue(cs[Len(cs)])

NaN == [k |-> "number", nan |-> TRUE]

\* parseFloat: the number the longest numeric prefix of the text denotes (a
\* sign, then digits), NaN when there is none
parseFloat(text) ==
  LET cs == TextChars(text)
      signed == cs # <<>> /\ Head(cs) = "-"
      body == IF signed THEN Tail(cs) ELSE cs
      n == DigitPrefix(body)
  IN IF n = 0 THEN NaN
     ELSE Num((IF signed THEN -1 ELSE 1) * DigitsValue(SubSeq(body, 1, n)))

\* Number.prototype.toString for an integer
RECURSIVE NumText(_)
NumText(n) ==
  IF n < 0 THEN "-" \o NumText(-n)
  ELSE IF n < 10 THEN Digits[n + 1]
  ELSE NumText(n \div 10) \o Digits[(n % 10) + 1]

\* String(value) for a number or a string
ToText(v) == IF v.k = "number" THEN NumText(v.n) ELSE v.s

\* The initial localValue of a cell
LocalValueOf(value) == IF value \in {Undefined, Null} THEN "" ELSE ToText(value)

\* TreeCell.handleBlur for a cell that shows value: the call of onChange it
\* makes, if any
handleBlurChange(value, type, localValue) ==
  IF type = "number"
  THEN LET num == parseFloat(localValue)
       IN IF num # NaN
          THEN [emit |-> num # value, newValue |-> num]
          ELSE [emit |-> localValue = "" /\ value \notin {Null, Undefined},
                newValue |-> Null]
  ELSE [emit |-> Str(localValue) # OrEmpty(value), newValue |-> Str(localValue)]

\* TreeCell.handleBlur on a rendered row
handleBlur(row, column, localValue) ==
  /\ ~crashed
  /\ LET change == handleBlurChange(getByPath(row.node, column.field), column.type,
                                    localValue)
     IN /\ change.emit
        /\ handleCellChange(row.id, column.field, change.newValue)

\* The event handleDelete emits
DeleteEvent(nodeId) ==
  Event("NODE_DELETED",
        [targetNodeId |-> nodeId,
         allRemovedNodeIds |-> <<nodeId>> \o findAllDescendants(items, nodeId)])

handleDelete(nodeId) ==
  /\ ~crashed
  /\ findAllDescendantsReturns(items, nodeId)
  /\ dispatchEvent("NODE_DELETED", DeleteEvent(nodeId).payload, {}, SameDrag)
  /\ UNCHANGED <<uuidCount, propChanges, call, mode, agent>>

NewRecord(name) == [f \in {"name"} |-> Str(name)]

handleAddNode ==
  /\ ~crashed
  /\ uuidCount < MaxCreated
  /\ uuidCount' = uuidCount + 1
  /\ UNCHANGED <<propChanges, call, mode, agent>>
  /\ dispatchEvent("NODE_CREATED",
                   [nodeId |-> uuidv4(uuidCount), parentId |-> Null,
                    initialData |-> NewRecord("New Node")], {}, SameDrag)

handleAddChild(parentId) ==
  /\ ~crashed
  /\ uuidCount < MaxCreated
  /\ uuidCount' = uuidCount + 1
  /\ UNCHANGED <<propChanges, call, mode, agent>>
  /\ dispatchEvent("NODE_CREATED",
                   [nodeId |-> uuidv4(uuidCount), parentId |-> parentId,
                    initialData |-> NewRecord("New Child")], {parentId}, SameDrag)

handleAddSibling(referenceId) ==
  /\ ~crashed
  /\ HasItem(items, referenceId)
  /\ uuidCount < MaxCreated
  /\ uuidCount' = uuidCount + 1
  /\ UNCHANGED <<propChanges, call, mode, agent>>
  /\ dispatchEvent("NODE_CREATED",
                   [nodeId |-> uuidv4(uuidCount),
                    parentId |-> Prop(FindItem(items, referenceId), "parentId"),
                    initialData |-> NewRecord("New Sibling")], {}, SameDrag)

handleSaveColumns(newColumns) ==
  /\ ~crashed
  /\ dispatchEvent("COLUMN_CONFIG_UPDATED", [newConfig |-> newColumns], {}, SameDrag)
  /\ UNCHANGED <<uuidCount, propChanges, call, mode, agent>>

\* A row is draggable when enableDragAndDrop (default true) and mode is 'edit'
handleDragStart(id) ==
  /\ ~crashed
  /\ mode = "edit"
  /\ draggedId' = id
  /\ UNCHANGED <<items, columns, expandedIds, visibleRows, dropTargetId, dropPosition,
                 events, pending, lastCommit, uuidCount, propChanges, crashed, call, mode, agent>>

handleDragOver(targetId, y) ==
  /\ ~crashed
  /\ Truthy(draggedId)
  /\ draggedId # targetId
  /\ findAllDescendantsReturns(items, draggedId)
  /\ targetId \notin Range(findAllDescendants(items, draggedId))
  /\ dropPosition' = Str(DropZone(y, RowHeight))
  /\ dropTargetId' = targetId
  /\ UNCHANGED <<items, columns, expandedIds, visibleRows, draggedId,
                 events, pending, lastCommit, uuidCount, propChanges, crashed, call, mode, agent>>

\* A handleDragEnd that leaves the drop indicator on its row
handleDragEndKeepsTarget ==
  /\ ~crashed
  /\ draggedId' = Null
  /\ dropTargetId' = dropTargetId
  /\ dropPosition' = Null
  /\ UNCHANGED <<items, columns, expandedIds, visibleRows,
                 events, pending, lastCommit, uuidCount, propChanges, crashed, call, mode, agent>>

handleDragEnd ==
  /\ ~crashed
  /\ draggedId' = Null
  /\ dropTargetId' = Null
  /\ dropPosition' = Null
  /\ UNCHANGED <<items, columns, expandedIds, visibleRows,
                 events, pending, lastCommit, uuidCount, propChanges, crashed, call, mode, agent>>

\* A drop payload that puts a node dropped inside a row before the children
\* of that row
DropPayloadFirstChild(targetId) ==
  LET targetNode == FindItem(items, targetId)
      draggedNode == FindItem(items, draggedId)
      siblings == Filter(items,
                    LAMBDA i : Prop(i, "parentId") = Prop(targetNode, "parentId"))
      found == {j \in DOMAIN siblings : Prop(siblings[j], "id") = targetId}
      targetIndex == IF found = {} THEN -1
                     ELSE (CHOOSE j \in found : \A m \in found : j <= m) - 1
  IN [nodeId |-> draggedId,
      oldParentId |-> Prop(draggedNode, "parentId"),
      newParentId |-> IF dropPosition = Str("inside") THEN targetId
                      ELSE Prop(targetNode, "parentId"),
      newIndex |-> IF dropPosition = Str("inside") THEN 0
                   ELSE IF dropPosition = Str("before") THEN targetIndex
                   ELSE targetIndex + 1]

\* The move intent handleDrop computes for a drop on the row targetId
DropPayload(targetId) ==
  LET targetNode == FindItem(items, targetId)
      draggedNode == FindItem(items, draggedId)
      children == Filter(items, LAMBDA i : Prop(i, "parentId") = targetId)
      siblings == Filter(items,
                    LAMBDA i : Prop(i, "parentId") = Prop(targetNode, "parentId"))
      found == {j \in DOMAIN siblings : Prop(siblings[j], "id") = targetId}
      \* findIndex: 0-based position of the first match, -1 when there is none
      targetIndex == IF found = {} THEN -1
                     ELSE (CHOOSE j \in found : \A m \in found : j <= m) - 1
  IN [nodeId |-> draggedId,
      oldParentId |-> Prop(draggedNode, "parentId"),
      newParentId |-> IF dropPosition = Str("inside") THEN targetId
                      ELSE Prop(targetNode, "parentId"),
      newIndex |-> IF dropPosition = Str("inside") THEN Len(children)
                   ELSE IF dropPosition = Str("before") THEN targetIndex
                   ELSE targetIndex + 1]

\* A drop that expands its target whatever the drop position is
handleDropExpanding(targetId) ==
  /\ ~crashed
  /\ Truthy(draggedId)
  /\ Truthy(dropPosition)
  /\ HasItem(items, targetId)
  /\ HasItem(items, draggedId)
  /\ dispatchEvent("NODE_MOVED", DropPayload(targetId), {targetId}, NoDrag)
  /\ UNCHANGED <<uuidCount, propChanges, call, mode, agent>>

handleDrop(targetId) ==
  /\ ~crashed
  /\ Truthy(draggedId)
  /\ Truthy(dropPosition)
  /\ HasItem(items, targetId)
  /\ HasItem(items, draggedId)
  /\ dispatchEvent("NODE_MOVED", DropPayload(targetId),
                   IF dropPosition = Str("inside") THEN {targetId} ELSE {}, NoDrag)
  /\ UNCHANGED <<uuidCount, propChanges, call, mode, agent>>

\* useEffect on the data prop: the host passes a new array
DataPropChanged(initialData) ==
  /\ ~crashed
  /\ propChanges < MaxPropChanges
  /\ propChanges' = propChanges + 1
  /\ Len(initialData) # Len(items)
  /\ items' = initialData
  /\ visibleRows' = Render(initialData, expandedIds)
  /\ lastCommit' = NoCommit
  /\ UNCHANGED <<columns, expandedIds, draggedId, dropTargetId, dropPosition,
                 events, pending, uuidCount, crashed, call, mode, agent>>

\* While a drag is in progress the browser delivers no other input events
Dragging == draggedId # Null

Next ==
  \/ \E row \in Rows : ~Dragging /\ handleToggleExpand(row)
  \/ \E row \in Rows, text \in NameTexts : ~Dragging /\ handleNameBlur(row, text)
  \/ \E row \in Rows, c \in Range(columns), text \in CellTexts :
        ~Dragging /\ handleBlur(row, c, text)
  \/ \E id \in RowIds : ~Dragging /\ handleDelete(id)
  \/ ~Dragging /\ handleAddNode
  \/ \E cfg \in NewConfigs : ~Dragging /\ handleSaveColumns(cfg)
  \/ \E id \in RowIds : ~Dragging /\ handleDragStart(id)
  \/ \E id \in RowIds, y \in PointerYs : handleDragOver(id, y)
  \/ handleDragEnd
  \/ \E id \in RowIds : handleDrop(id)
  \/ \E d \in HostData : DataPropChanged(d)

Spec == Init /\ [][Next]_vars

----------------------------------------------------------------------------
(* The intents of the operation surface: dispatchEvent called outside a React
   event handler (automation), so that several intents may be issued before
   React renders.  A handler reads the items of the last render. *)

MaxIndex == 2        \* largest newIndex of a move intent

\* Ids an intent may name: the demo ids, an id that is never in the collection,
\* and the ids created so far
IntentIds ==
  {Str("1"), Str("1-1"), Str("2"), Str("zz")} \cup {uuidv4(n) : n \in 0..(uuidCount - 1)}

\* Parents a move or create intent may name
IntentParents == {Null, Str("1"), Str("1-1"), Str("zz")}

IntentFields == {<<"id">>, <<"parentId">>, <<"name">>, <<"attributes", "status">>}

IntentValues == {Str("1"), Str("x")}

\* Parents a create intent may name: also the empty string, a string that
\* is not null and not truthy
CreateParents == IntentParents \cup {Str("")}

\* initialData of a create intent: it may carry an id and a parentId of its own
InitialDatas == {NewRecord("New Node"), Rec(Str("1"), Str("2"))}

\* The collections an import payload carries
ImportDatas == {<<>>, Scenario}

\* An intent whose update is queued without a call of onEvent
IntentUnobserved(ev) ==
  /\ ~crashed
  /\ Len(events) < MaxEvents
  /\ Len(pending) < MaxPending
  /\ pending' = Append(pending, ev)
  /\ UNCHANGED <<items, columns, expandedIds, visibleRows, draggedId, dropTargetId,
                 dropPosition, lastCommit, propChanges, crashed, events, call, mode, agent>>

\* onEvent(event), then the update is queued
Intent(ev) ==
  /\ ~crashed
  /\ Len(events) < MaxEvents
  /\ Len(pending) < MaxPending
  /\ events' = Append(events, ev)
  /\ pending' = Append(pending, ev)
  /\ UNCHANGED <<items, columns, expandedIds, visibleRows, draggedId, dropTargetId,
                 dropPosition, lastCommit, propChanges, crashed, call, mode, agent>>

IntentUpdate(nodeId, field, value) ==
  /\ Intent(CellChangeEvent(nodeId, field, value))
  /\ UNCHANGED uuidCount

IntentMove(nodeId, newParentId, newIndex) ==
  /\ Intent(Event("NODE_MOVED",
                  [nodeId |-> nodeId,
                   oldParentId |-> IF HasItem(items, nodeId)
                                   THEN Prop(FindItem(items, nodeId), "parentId")
                                   ELSE Undefined,
                   newParentId |-> newParentId, newIndex |-> newIndex]))
  /\ UNCHANGED uuidCount

IntentCreate(parentId, initialData) ==
  /\ uuidCount < MaxCreated
  /\ uuidCount' = uuidCount + 1
  /\ Intent(Event("NODE_CREATED",
                  [nodeId |-> uuidv4(uuidCount), parentId |-> parentId,
                   initialData |-> initialData]))

IntentDelete(nodeId) ==
  /\ findAllDescendantsReturns(items, nodeId)
  /\ Intent(DeleteEvent(nodeId))
  /\ UNCHANGED uuidCount

IntentColumns(newColumns) ==
  /\ Intent(Event("COLUMN_CONFIG_UPDATED", [newConfig |-> newColumns]))
  /\ UNCHANGED uuidCount

\* hasData, hasConfig: the payload has a data (config) member
IntentImport(data, hasData, config, hasConfig) ==
  /\ Intent(Event("IMPORT_COMPLETED",
                  [data |-> data, hasData |-> hasData,
                   config |-> config, hasConfig |-> hasConfig]))
  /\ UNCHANGED uuidCount

\* getSnapshot() of the imperative handle, without meta
getSnapshot == [config |-> columns, data |-> items]

\* The payload of the import of a snapshot
SnapshotPayload(snap) ==
  [data |-> snap.data, hasData |-> TRUE, config |-> snap.config, hasConfig |-> TRUE]

\* The automation reads getSnapshot() and imports it
IntentImportSnapshot ==
  /\ Intent(Event("IMPORT_COMPLETED", SnapshotPayload(getSnapshot)))
  /\ UNCHANGED uuidCount

\* React renders: the queued updates are applied in order
RenderPending ==
  /\ ~crashed
  /\ pending # <<>>
  /\ Commit(pending, {}, SameDrag)
  /\ UNCHANGED <<events, uuidCount, propChanges, call, mode, agent>>

NextReducer ==
  \/ \E id \in IntentIds, f \in IntentFields, v \in IntentValues : IntentUpdate(id, f, v)
  \/ \E id \in IntentIds, np \in IntentParents, ix \in (-1)..MaxIndex :
        IntentMove(id, np, ix)
  \/ \E np \in CreateParents, d \in InitialDatas : IntentCreate(np, d)
  \/ \E id \in IntentIds : IntentDelete(id)
  \/ \E cfg \in NewConfigs : IntentColumns(cfg)
  \/ \E d \in ImportDatas, cfg \in NewConfigs :
        \/ IntentImport(d, TRUE, cfg, TRUE)
        \/ IntentImport(d, TRUE, <<>>, FALSE)
        \/ IntentImport(<<>>, FALSE, cfg, TRUE)
  \/ IntentImportSnapshot
  \/ RenderPending

\* The application mounts the component with mode 'edit'; dispatchEvent does
\* not read the mode
InitEdit == Init /\ mode = "edit"

SpecReducer == InitEdit /\ [][NextReducer]_vars

----------------------------------------------------------------------------
(* The helpers of utils/treeHelpers.ts called on their own: the arguments are
   drawn in the initial state, a step applies the helper *)

Obj(f) == [k |-> "object", f |-> f]

Field(key, v) == Put(<<>>, key, v)

\* Values that are not objects
PathAtoms == {Undefined, Null, Num(0), Num(5), Str(""), Str("ab")}

\* Records: empty, with a field a that holds an atom, and with nested objects
\* that have fields on and off the paths
PathRecords ==
  {<<>>} \cup {Field("a", v) : v \in PathAtoms}
  \cup {Field("a", Obj(<<>>)),
        Field("a", Obj(Field("b", Num(5)))),
        Put(Field("a", Obj(Put(Field("b", Obj(Put(Field("a", Num(5)), "b", Null))),
                               "a", Num(0)))),
            "b", Num(5))}

\* Dotted paths, split: 'a', 'b', 'a.b', 'a.b.a', 'a.0', 'a.length'
PathParts ==
  {<<"a">>, <<"b">>, <<"a", "b">>, <<"a", "b", "a">>, <<"a", "0">>, <<"a", "length">>}

PathValues == {Undefined, Null, Num(0), Num(7), Str(""), Obj(Field("b", Num(1)))}

TreeIds == {Str("1"), Str("2"), Str("3")}

TreeParents == {Null, Str("1"), Str("2"), Str("zz")}

MaxTreeLen == 3

\* Row heights, and pointer offsets, in pixels
MaxHeight == 40

\* Collections of at most MaxTreeLen records, with and without shared ids,
\* orphans and cycles
TreeInputs ==
  UNION {[1..n -> {Rec(id, parent) : id \in TreeIds, parent \in TreeParents}] :
           n \in 0..MaxTreeLen}

\* Texts of a cell: empty, numbers, a number followed by other characters,
\* and a text without a number
Texts == {"", "0", "2", "12", "-2", "2x", "1-1", "x"}

\* The values a cell shows: none, numbers and strings
CellValues ==
  {Undefined, Null} \cup {Num(n) : n \in {0, 2, 12, -2}} \cup {Str(t) : t \in Texts}

\* The text is a valid floating-point number: it denotes a number as a whole
ValidNumberText(text) ==
  parseFloat(text) # NaN /\ NumText(parseFloat(text).n) = text

\* The value of an input of type number is the text typed when that is a
\* valid floating-point number and empty otherwise; the value of a text
\* input is the text typed
InputValue(type, text) ==
  IF type = "number" /\ ~ValidNumberText(text) THEN "" ELSE text

\* The collections flattenVisibleTree is called on, through buildTree: those
\* of TreeInputs and the demo collection
FlattenInputs == TreeInputs \cup {Scenario}

HelperCalls ==
  {[fn |-> "setByPath", obj |-> r, path |-> p, value |-> v, done |-> FALSE] :
     r \in PathRecords, p \in PathParts, v \in PathValues}
  \cup {[fn |-> "getByPath", obj |-> r, path |-> p, done |-> FALSE] :
          r \in PathRecords, p \in PathParts}
  \cup {[fn |-> "buildTree", items |-> its, rootId |-> rid, done |-> FALSE] :
          its \in TreeInputs, rid \in {Null, Str("1")}}
  \cup {[fn |-> "findAllDescendants", items |-> its, targetId |-> t, done |-> FALSE] :
          its \in TreeInputs, t \in TreeIds \cup {Str("zz")}}
  \cup {[fn |-> "handleDragOver", y |-> y, height |-> h, done |-> FALSE] :
          h \in 0..MaxHeight, y \in 0..MaxHeight}
  \cup {[fn |-> "TreeCell", value |-> v, type |-> ty, typed |-> t, done |-> FALSE] :
          v \in CellValues, ty \in {"text", "number"},
          t \in {[typed |-> FALSE]} \cup {[typed |-> TRUE, text |-> x] : x \in Texts}}
  \cup {[fn |-> "flattenVisibleTree", items |-> its, rootId |-> rid, expanded |-> ex,
         done |-> FALSE] :
          its \in FlattenInputs, rid \in {Null, Str("1")}, ex \in SUBSET TreeIds}

InitHelpers ==
  /\ call \in HelperCalls
  /\ items = <<>>
  /\ columns = <<>>
  /\ expandedIds = {}
  /\ visibleRows = <<>>
  /\ draggedId = Null
  /\ dropTargetId = Null
  /\ dropPosition = Null
  /\ events = <<>>
  /\ pending = <<>>
  /\ lastCommit = NoCommit
  /\ uuidCount = 0
  /\ propChanges = 0
  /\ crashed = FALSE
  /\ mode = "edit"
  /\ agent = AgentInit

\* setByPath(obj, path, value), with the heap before and after the call
ApplySetByPath ==
  /\ call.fn = "setByPath"
  /\ ~call.done
  /\ LET o == Load(<<>>, Obj(call.obj))
         v == Load(o.heap, call.value)
         r == setByPathInHeap(v.heap, o.v.a, call.path, v.v)
     IN call' = [fn |-> "setByPath", obj |-> call.obj, path |-> call.path,
                 value |-> call.value, done |-> TRUE,
                 before |-> v.heap, root |-> o.v.a,
                 after |-> r.heap, result |-> r.result,
                 out |-> setByPath(call.obj, call.path, call.value)]
  /\ UNCHANGED <<items, columns, expandedIds, visibleRows, draggedId, dropTargetId,
                 dropPosition, events, pending, lastCommit, uuidCount, propChanges,
                 crashed, mode, agent>>

ApplyGetByPath ==
  /\ call.fn = "getByPath"
  /\ ~call.done
  /\ call' = [fn |-> "getByPath", obj |-> call.obj, path |-> call.path, done |-> TRUE,
              out |-> getByPath(call.obj, call.path)]
  /\ UNCHANGED <<items, columns, expandedIds, visibleRows, draggedId, dropTargetId,
                 dropPosition, events, pending, lastCommit, uuidCount, propChanges,
                 crashed, mode, agent>>

ApplyBuildTree ==
  /\ call.fn = "buildTree"
  /\ ~call.done
  /\ call' = [fn |-> "buildTree", items |-> call.items, rootId |-> call.rootId,
              done |-> TRUE, out |-> buildTree(call.items, call.rootId)]
  /\ UNCHANGED <<items, columns, expandedIds, visibleRows, draggedId, dropTargetId,
                 dropPosition, events, pending, lastCommit, uuidCount, propChanges,
                 crashed, mode, agent>>

\* flattenVisibleTree(buildTree(items, rootId), expandedIds)
ApplyFlattenVisibleTree ==
  /\ call.fn = "flattenVisibleTree"
  /\ ~call.done
  /\ LET tree == buildTree(call.items, call.rootId)
     IN call' = [fn |-> "flattenVisibleTree", items |-> call.items, rootId |-> call.rootId,
                 expanded |-> call.expanded, done |-> TRUE, tree |-> tree,
                 out |-> flattenVisibleTree(tree, tree.roots, call.expanded, 0)]
  /\ UNCHANGED <<items, columns, expandedIds, visibleRows, draggedId, dropTargetId,
                 dropPosition, events, pending, lastCommit, uuidCount, propChanges,
                 crashed, mode, agent>>

\* findAllDescendants(items, targetId); returned is false when the recursion
\* does not end
ApplyFindAllDescendants ==
  /\ call.fn = "findAllDescendants"
  /\ ~call.done
  /\ call' = [fn |-> "findAllDescendants", items |-> call.items,
              targetId |-> call.targetId, done |-> TRUE,
              returned |-> findAllDescendantsReturns(call.items, call.targetId),
              out |-> findAllDescendants(call.items, call.targetId)]
  /\ UNCHANGED <<items, columns, expandedIds, visibleRows, draggedId, dropTargetId,
                 dropPosition, events, pending, lastCommit, uuidCount, propChanges,
                 crashed, mode, agent>>

\* The drop-zone classification of handleDragOver for a pointer at offset y
\* in a row of the given height
ApplyDropZone ==
  /\ call.fn = "handleDragOver"
  /\ ~call.done
  /\ call' = [fn |-> "handleDragOver", y |-> call.y, height |-> call.height,
              done |-> TRUE, out |-> DropZone(call.y, call.height)]
  /\ UNCHANGED <<items, columns, expandedIds, visibleRows, draggedId, dropTargetId,
                 dropPosition, events, pending, lastCommit, uuidCount, propChanges,
                 crashed, mode, agent>>

\* A TreeCell mounted on a value, optionally typed into, then blurred
ApplyCellBlur ==
  /\ call.fn = "TreeCell"
  /\ ~call.done
  /\ LET localValue == IF call.typed.typed THEN InputValue(call.type, call.typed.text)
                       ELSE LocalValueOf(call.value)
     IN call' = [fn |-> "TreeCell", value |-> call.value, type |-> call.type,
                 typed |-> call.typed, done |-> TRUE, localValue |-> localValue,
                 out |-> handleBlurChange(call.value, call.type, localValue)]
  /\ UNCHANGED <<items, columns, expandedIds, visibleRows, draggedId, dropTargetId,
                 dropPosition, events, pending, lastCommit, uuidCount, propChanges,
                 crashed, mode, agent>>

NextHelpers ==
  \/ ApplySetByPath
  \/ ApplyGetByPath
  \/ ApplyBuildTree
  \/ ApplyFlattenVisibleTree
  \/ ApplyFindAllDescendants
  \/ ApplyDropZone
  \/ ApplyCellBlur

SpecHelpers == InitHelpers /\ [][NextHelpers]_vars

----------------------------------------------------------------------------
(* AIAgentSidebar: handleSend is an async function; the code between two
   awaits runs to completion, so each action is one such stretch.  The
   history is kept by its length; the messages and currentThought are display
   state that no condition of handleSend reads. *)

MaxInputLen == 2

MaxToolCalls == 2

MaxRequests == 2

MaxRefused == 2

\* const MAX_LOOPS = 8
MAX_LOOPS == 8

InputChars == {" ", "a"}

\* The texts the user can type, as sequences of characters
InputTexts == UNION {[1..n -> InputChars] : n \in 0..MaxInputLen}

RECURSIVE TrimStart(_)
TrimStart(cs) == IF cs # <<>> /\ Head(cs) = " " THEN TrimStart(Tail(cs)) ELSE cs

RECURSIVE TrimEnd(_)
TrimEnd(cs) ==
  IF cs # <<>> /\ cs[Len(cs)] = " " THEN TrimEnd(SubSeq(cs, 1, Len(cs) - 1)) ELSE cs

\* String.prototype.trim
Trim(cs) == TrimEnd(TrimStart(cs))

\* The methods of the handle TreeTableSheet passes to useImperativeHandle
HandleMethods == {"getData", "getSnapshot", "openImportDialog", "triggerExport"}

\* The tool names a model turn can carry: a declared tool that reads, a
\* declared tool that writes, and a name executeTool does not know
CalledTools == {"getTableSnapshot", "addNode", "unknownTool"}

\* The methods of tableRef.current a tool calls
ToolMethods(name) ==
  IF name = "getTableSnapshot" THEN {"getData", "getColumns"}
  ELSE IF name = "addNode" THEN {"addNode"}
  ELSE {}

\* executeTool: a call of a method the handle lacks throws a TypeError inside
\* the try block and becomes { error }; the default case is { error } as well
executeTool(name) ==
  IF name \notin {"getTableSnapshot", "addNode"} THEN "error"
  ELSE IF ToolMethods(name) \subseteq HandleMethods THEN "success"
  ELSE "error"

\* The function calls of one model turn
FunctionCalls == UNION {[1..n -> CalledTools] : n \in 0..MaxToolCalls}

\* onChange of the input, which is disabled while isProcessing
TypeInput(text) ==
  /\ ~agent.isProcessing
  /\ agent' = [agent EXCEPT !.input = text]
  /\ UNCHANGED <<items, columns, expandedIds, visibleRows, draggedId, dropTargetId,
                 dropPosition, events, pending, lastCommit, uuidCount, propChanges,
                 crashed, call, mode>>

\* resetSession: setMessages([]), setHistory([]), setInput('')
resetSession ==
  /\ agent' = [agent EXCEPT !.input = <<>>, !.history = 0]
  /\ UNCHANGED <<items, columns, expandedIds, visibleRows, draggedId, dropTargetId,
                 dropPosition, events, pending, lastCommit, uuidCount, propChanges,
                 crashed, call, mode>>

\* A handleSend that accepts every send
SendAcceptedAlways == TRUE

\* if (!input.trim() || isProcessing) return
SendAccepted == Trim(agent.input) # <<>> /\ ~agent.isProcessing

\* A loop that goes on as long as the model calls tools
LoopContinuesWhileTools(loopCount) == TRUE

\* while (loopCount < MAX_LOOPS)
LoopContinues(loopCount) == loopCount < MAX_LOOPS

\* handleSend up to its first await.  The send is refused, or new
\* GoogleGenAI throws and catch and finally run at once, or the first
\* generateContent call is issued.
handleSend ==
  /\ \/ /\ ~SendAccepted
        /\ agent' = [agent EXCEPT !.refusedBusy =
                        IF agent.isProcessing /\ @ < MaxRefused THEN @ + 1 ELSE @]
     \/ /\ SendAccepted
        /\ agent.accepted < MaxRequests
        /\ \/ agent' = [agent EXCEPT !.input = <<>>,
                                     !.isProcessing = FALSE,
                                     !.accepted = @ + 1,
                                     !.lastRun = [NoRun EXCEPT !.reason = "error"]]
           \/ agent' = [agent EXCEPT !.input = <<>>,
                                     !.isProcessing = TRUE,
                                     !.accepted = @ + 1,
                                     !.runs = Append(@, [turns |-> agent.history + 1,
                                                         loopCount |-> 0, modelCalls |-> 1,
                                                         toolsRun |-> 0, toolErrors |-> 0])]
  /\ UNCHANGED <<items, columns, expandedIds, visibleRows, draggedId, dropTargetId,
                 dropPosition, events, pending, lastCommit, uuidCount, propChanges,
                 crashed, call, mode>>

\* The sequence s without its i-th element
RemoveAt(s, i) == SubSeq(s, 1, i - 1) \o SubSeq(s, i + 1, Len(s))

\* The end of handleSend call i: setHistory(currentHistory) unless an
\* exception skipped it, then finally { setIsProcessing(false) }
Finish(i, run, reason) ==
  [agent EXCEPT !.isProcessing = FALSE,
                !.history = IF reason = "error" THEN @ ELSE run.turns,
                !.runs = RemoveAt(@, i),
                !.lastRun = [reason |-> reason, modelCalls |-> run.modelCalls,
                             toolsRun |-> run.toolsRun, toolErrors |-> run.toolErrors]]

\* The number of calls whose executeTool result is an error
ErrorCount(calls) == Cardinality({j \in DOMAIN calls : executeTool(calls[j]) = "error"})

\* The generateContent call of handleSend call i rejects, or its response has
\* no candidates: the catch block runs, then finally
ModelThrows(i) ==
  /\ i \in DOMAIN agent.runs
  /\ agent' = Finish(i, agent.runs[i], "error")
  /\ UNCHANGED <<items, columns, expandedIds, visibleRows, draggedId, dropTargetId,
                 dropPosition, events, pending, lastCommit, uuidCount, propChanges,
                 crashed, call, mode>>

\* The generateContent call of handleSend call i resolves with the function
\* calls of the turn, which is pushed to currentHistory: none ends the loop;
\* otherwise every tool is executed, the tool responses are pushed as a turn,
\* loopCount is incremented and the loop condition decides between the next
\* generateContent call and the end.
ModelResponds(i, calls) ==
  /\ i \in DOMAIN agent.runs
  /\ LET run == agent.runs[i]
         said == [run EXCEPT !.turns = @ + 1]
         ran == [said EXCEPT !.turns = @ + 1,
                             !.toolsRun = @ + Len(calls),
                             !.toolErrors = @ + ErrorCount(calls),
                             !.loopCount = @ + 1]
     IN agent' = IF calls = <<>> THEN Finish(i, said, "done")
                 ELSE IF LoopContinues(ran.loopCount)
                 THEN [agent EXCEPT !.runs[i] = [ran EXCEPT !.modelCalls = @ + 1]]
                 ELSE Finish(i, ran, "limit")
  /\ UNCHANGED <<items, columns, expandedIds, visibleRows, draggedId, dropTargetId,
                 dropPosition, events, pending, lastCommit, uuidCount, propChanges,
                 crashed, call, mode>>

\* A pending generateContent call settles
ModelSettles ==
  \E i \in DOMAIN agent.runs :
     \/ ModelThrows(i)
     \/ \E calls \in FunctionCalls : ModelResponds(i, calls)

NextAgent ==
  \/ \E text \in InputTexts : TypeInput(text)
  \/ resetSession
  \/ handleSend
  \/ \E i \in DOMAIN agent.runs : ModelThrows(i)
  \/ \E i \in DOMAIN agent.runs, calls \in FunctionCalls : ModelResponds(i, calls)

\* The application mounts the sidebar next to the sheet with its demo data
InitAgent == InitEdit /\ items = Scenario

SpecAgent == InitAgent /\ [][NextAgent]_vars

\* A promise that is pending settles: the transport answers or fails
SpecAgentFair == SpecAgent /\ WF_vars(ModelSettles)

----------------------------------------------------------------------------
(* Vocabulary of the properties *)

IdOf(r) == Prop(r, "id")

ParentOf(r) == Prop(r, "parentId")

IdsOf(its) == [i \in DOMAIN its |-> IdOf(its[i])]

\* The ids reached from the ids in from by following parentId, at most n times
RECURSIVE ParentClosure(_, _, _)
ParentClosure(its, from, n) ==
  LET next == from \cup {ParentOf(its[j]) : j \in {j \in DOMAIN its : IdOf(its[j]) \in from}}
  IN IF n = 0 \/ next = from THEN from ELSE ParentClosure(its, next, n - 1)

\* The ids on the parent chain of the record at position i
AncestorIds(its, i) == ParentClosure(its, {ParentOf(its[i])}, Len(its))

\* The number of positions of its that hold the record r
Count(its, r) == Cardinality({i \in DOMAIN its : its[i] = r})

SameRecords(a, b) == \A r \in Range(a) \cup Range(b) : Count(a, r) = Count(b, r)

DistinctIds(its) == \A i, j \in DOMAIN its : i # j => IdOf(its[i]) # IdOf(its[j])

\* The last commit applied a move of a record that was present
MoveCommitted ==
  /\ lastCommit.ev.type = "NODE_MOVED"
  /\ HasItem(lastCommit.prev, lastCommit.ev.payload.nodeId)

DeleteCommitted == lastCommit.ev.type = "NODE_DELETED"

----------------------------------------------------------------------------
(* Properties *)

\* C1: in every reachable state no record is its own ancestor: following
\* parentId from a record never returns to that record.
C1_NoRecordIsOwnAncestor ==
  \A i \in DOMAIN items : IdOf(items[i]) \notin AncestorIds(items, i)

\* C2: a drop of the dragged node on a row that is the dragged node itself or
\* one of its descendants is rejected: the collection is unchanged.
C2_DropOnOwnSubtreeRejected ==
  [][\A t \in RowIds :
       (/\ findAllDescendantsReturns(items, draggedId)
        /\ t = draggedId \/ t \in Range(findAllDescendants(items, draggedId))
        /\ handleDrop(t))
       => items' = items]_vars

\* C3: in every reachable state the ids of the records are pairwise distinct.
C3_IdsDistinct ==
  \A i, j \in DOMAIN items : i # j => IdOf(items[i]) # IdOf(items[j])

\* C4: in every reachable state every record's parentId is null or the id of
\* a record of the collection.
C4_NoDanglingParent ==
  \A i \in DOMAIN items :
    ParentOf(items[i]) = Null \/ ParentOf(items[i]) \in Range(IdsOf(items))

\* The records of prev that are neither n nor below n, in the order of prev
WithoutSubtree(prev, n) ==
  LET keep == FilterIdx([i \in DOMAIN prev |-> i],
                LAMBDA i : IdOf(prev[i]) # n /\ n \notin AncestorIds(prev, i))
  IN [j \in DOMAIN keep |-> prev[keep[j]]]

C6_ChangesOnlyByEvent == [][items' # items => events' # events]_vars

\* C7: each intent calls the observer exactly once, before its update is
\* applied, and the observer sees the events in the order of the intents:
\* a step that queues an update appends that one event to the log, the log
\* changes in no other way, and the updates not yet applied are the newest
\* events of the log.
C7_ObserverSeesEachIntentOnce ==
  /\ [](/\ Len(pending) <= Len(events)
        /\ pending = SubSeq(events, Len(events) - Len(pending) + 1, Len(events)))
  /\ [][(events' # events \/ Len(pending') > Len(pending)) =>
          /\ Len(pending') = Len(pending) + 1
          /\ pending' = Append(pending, Last(pending'))
          /\ events' = Append(events, Last(pending'))
          /\ items' = items]_vars

\* Two intents were issued before React rendered
C7_Witness ==
  /\ Len(pending) = 2
  /\ Len(events) = 2
  /\ pending[1] # pending[2]

\* The last commit moved a present node to its parent, at its own index among
\* that parent's children
SamePlaceMove ==
  /\ MoveCommitted
  /\ LET prev == lastCommit.prev
         p == lastCommit.ev.payload
         at == CHOOSE i \in DOMAIN prev :
                 IdOf(prev[i]) = p.nodeId /\ \A j \in 1..(i - 1) : IdOf(prev[j]) # p.nodeId
     IN /\ p.newParentId = ParentOf(prev[at])
        /\ p.newIndex =
             Cardinality({j \in 1..(at - 1) : ParentOf(prev[j]) = ParentOf(prev[at])})

\* The event of the last commit is in the log, directly before the events
\* whose updates are still queued
LastCommitLogged ==
  /\ Len(events) > Len(pending)
  /\ events[Len(events) - Len(pending)] = lastCommit.ev

\* C8 as stated: a move of N to its current parent at its current index leaves
\* the flat collection exactly as it was, and emits one move event.
C8_SamePlaceMoveKeepsCollection ==
  SamePlaceMove => items = lastCommit.prev /\ LastCommitLogged

\* Pairwise distinct ids, and every parentId null or the id of a record
WellFormed(its) ==
  /\ DistinctIds(its)
  /\ \A i \in DOMAIN its : ParentOf(its[i]) = Null \/ ParentOf(its[i]) \in Range(IdsOf(its))

\* C8 as amended: on a collection with pairwise distinct ids and no dangling
\* parentId such a move leaves the records and the tree built from them (the
\* roots and every node's children, in order) as they were, and emits one
\* move event; the flat order may change.
C8_SamePlaceMoveKeepsTree ==
  (SamePlaceMove /\ WellFormed(lastCommit.prev)) =>
    /\ SameRecords(items, lastCommit.prev)
    /\ buildTree(items, Null) = buildTree(lastCommit.prev, Null)
    /\ LastCommitLogged

\* A same-place move changed the flat order of a well-formed collection
C8_Witness ==
  /\ SamePlaceMove
  /\ WellFormed(lastCommit.prev)
  /\ items # lastCommit.prev

\* The collection a move {nodeId, newParentId, k} yields for 0 <= k <= number
\* of children of newParentId in rest
ExpectedMove(prev, nodeId, newParentId, k) ==
  LET rest == SelectSeq(prev, LAMBDA r : IdOf(r) # nodeId)
      node == Put(FindItem(prev, nodeId), "parentId", newParentId)
      sib == {i \in DOMAIN rest : ParentOf(rest[i]) = newParentId}
      \* the number of records of rest that precede the node
      before == IF sib = {} THEN Len(rest)
                ELSE IF k = Cardinality(sib) THEN CHOOSE i \in sib : \A j \in sib : j <= i
                ELSE (CHOOSE i \in sib : Cardinality({j \in sib : j < i}) = k) - 1
  IN SubSeq(rest, 1, before) \o <<node>> \o SubSeq(rest, before + 1, Len(rest))

SiblingCount(prev, nodeId, newParentId) ==
  Cardinality({i \in DOMAIN prev : IdOf(prev[i]) # nodeId /\ ParentOf(prev[i]) = newParentId})

\* C9: a move of a present node yields rest with the node, its parentId set to
\* newParentId, spliced in: at the end when newParentId has no children in
\* rest, after the last child when newIndex is their count, else before the
\* child at position newIndex.
C9_MoveSplicesNode ==
  MoveCommitted =>
    LET p == lastCommit.ev.payload
    IN (0 <= p.newIndex /\ p.newIndex <= SiblingCount(lastCommit.prev, p.nodeId, p.newParentId))
       => /\ ~crashed
          /\ items = ExpectedMove(lastCommit.prev, p.nodeId, p.newParentId, p.newIndex)

\* The scenario of the specification: moving '1-1' to the root at index 0
C9_Witness ==
  /\ MoveCommitted
  /\ lastCommit.prev = Scenario
  /\ lastCommit.ev.payload.nodeId = Str("1-1")
  /\ lastCommit.ev.payload.newParentId = Null
  /\ lastCommit.ev.payload.newIndex = 0
  /\ IdsOf(items) = <<Str("1-1"), Str("1"), Str("2")>>
  /\ ParentOf(items[1]) = Null

Clamp(k, lo, hi) == IF k < lo THEN lo ELSE IF k > hi THEN hi ELSE k

\* C10: for any integer newIndex a move completes without error and places
\* the node at newIndex clamped to [0, number of siblings after removal].
C10_MoveClampsIndex ==
  MoveCommitted =>
    LET p == lastCommit.ev.payload
        n == SiblingCount(lastCommit.prev, p.nodeId, p.newParentId)
    IN /\ ~crashed
       /\ items = ExpectedMove(lastCommit.prev, p.nodeId, p.newParentId,
                               Clamp(p.newIndex, 0, n))

\* The event is a move or a delete that names an id no record of its has
NamesAbsentNode(its, ev) ==
  \/ ev.type = "NODE_MOVED" /\ ~HasItem(its, ev.payload.nodeId)
  \/ ev.type = "NODE_DELETED" /\ ~HasItem(its, ev.payload.targetNodeId)

\* C11: a move or a delete naming an id that is not in the collection is a
\* silent no-op: when the updates React applies are all of that kind, the
\* collection, the schema and the expansion set are unchanged and nothing
\* throws.
C11_AbsentNodeIsNoOp ==
  [][(/\ pending # <<>>
      /\ pending' = <<>>
      /\ \A i \in DOMAIN pending : NamesAbsentNode(items, pending[i]))
     => (/\ items' = items
         /\ columns' = columns
         /\ expandedIds' = expandedIds
         /\ ~crashed')]_vars

\* C12: an import whose payload has no data member is rejected wholesale: the
\* collection and the schema after it equal those before it.
C12_ImportWithoutDataRejected ==
  [][(/\ Len(pending) = 1
      /\ pending' = <<>>
      /\ pending[1].type = "IMPORT_COMPLETED"
      /\ ~pending[1].payload.hasData)
     => (/\ items' = items
         /\ columns' = columns
         /\ ~crashed')]_vars

\* C13: importing the snapshot getSnapshot returns for a state yields the
\* collection and the schema of that state, also when the schema is empty and
\* also when other updates were queued before the import.
C13_ImportOfSnapshotRestoresState ==
  [][(/\ pending # <<>>
      /\ pending' = <<>>
      /\ Last(pending) = Event("IMPORT_COMPLETED", SnapshotPayload(getSnapshot)))
     => (/\ Len(pending) = 1 => ~crashed'
         /\ ~crashed' => items' = items /\ columns' = columns)]_vars

\* The snapshot of a state with records and an empty schema was imported
\* behind a schema update
C13_Witness ==
  /\ lastCommit.ev.type = "IMPORT_COMPLETED"
  /\ lastCommit.ev.payload.hasConfig
  /\ lastCommit.ev.payload.config = <<>>
  /\ lastCommit.ev.payload.data = items
  /\ items # <<>>
  /\ columns = <<>>
  /\ Len(events) = 2
  /\ events[1].type = "COLUMN_CONFIG_UPDATED"
  /\ events[1].payload.newConfig # <<>>
  /\ lastCommit.prev = items

\* The step is an explicit toggle of a rendered row
ToggleStep ==
  /\ events' = events
  /\ \E row \in Rows :
       expandedIds' = IF row.id \in expandedIds THEN expandedIds \ {row.id}
                      ELSE expandedIds \cup {row.id}

\* The step emits the event of a create with a non-null parent and adds that
\* parent
CreateUnderParentStep ==
  /\ Len(events') = Len(events) + 1
  /\ Last(events').type = "NODE_CREATED"
  /\ Last(events').payload.parentId # Null
  /\ expandedIds' = expandedIds \cup {Last(events').payload.parentId}

\* The step emits the move of a drop classified 'inside' and adds the drop
\* target
DropInsideStep ==
  /\ Len(events') = Len(events) + 1
  /\ Last(events').type = "NODE_MOVED"
  /\ dropPosition = Str("inside")
  /\ expandedIds' = expandedIds \cup {Last(events').payload.newParentId}

\* C14 as stated: the expansion set is empty at initialization and changes
\* only by a create with a non-null parent, which adds the parent, or by an
\* explicit toggle; a move, also a drop classified 'inside', leaves it as it is.
C14_ExpansionChangesByCreateOrToggle ==
  /\ expandedIds = {}
  /\ [][expandedIds' # expandedIds => (ToggleStep \/ CreateUnderParentStep)]_vars

\* C14 as amended: the expansion set is empty at initialization and changes
\* only by a create with a non-null parent, by an explicit toggle, or by a
\* drop classified 'inside', which adds the drop target; a drop classified
\* 'before' or 'after' leaves it as it is.
C14_ExpansionChangesByCreateToggleOrDropInside ==
  /\ expandedIds = {}
  /\ [][expandedIds' # expandedIds =>
          (ToggleStep \/ CreateUnderParentStep \/ DropInsideStep)]_vars

\* The only event is the move of a drop into another parent, and that
\* parent is expanded
C14_Witness ==
  /\ lastCommit.ev.type = "NODE_MOVED"
  /\ lastCommit.ev.payload.newParentId # lastCommit.ev.payload.oldParentId
  /\ lastCommit.ev.payload.newParentId \in expandedIds
  /\ Len(events) = 1
  /\ draggedId = Null

\* React applies exactly one queued update, a create
CreateRendered ==
  /\ Len(pending) = 1
  /\ pending' = <<>>
  /\ pending[1].type = "NODE_CREATED"

\* The record a create appends: initialData with id and parentId overridden
CreatedRecord(p) ==
  [f \in DOMAIN p.initialData \cup {"id", "parentId"} |->
     IF f = "id" THEN p.nodeId
     ELSE IF f = "parentId" THEN p.parentId
     ELSE p.initialData[f]]

UpdateRendered ==
  /\ Len(pending) = 1
  /\ pending' = <<>>
  /\ pending[1].type = "NODE_DATA_UPDATED"

Returned(fn) == call.fn = fn /\ call.done

\* C17: for every record r, path p and value v,
\* getByPath(setByPath(r, p, v), p) is v.
C17_GetAfterSetIsValue ==
  Returned("setByPath") => getByPath(call.out, call.path) = call.value

\* A value was set three segments deep in a record with nested objects, and
\* one in a record without them
C17_Witness ==
  /\ Returned("setByPath")
  /\ call.path = <<"a", "b", "a">>
  /\ call.obj \in {<<>>, Field("a", Obj(Field("b", Num(5))))}
  /\ call.value = Num(7)
  /\ call.out # call.obj

\* The fields of res off the path parts equal those of orig, at every level
\* at which orig has an object on the path
RECURSIVE OffPathEqual(_, _, _)
OffPathEqual(orig, res, parts) ==
  /\ \A key \in DOMAIN orig \ {parts[1]} : key \in DOMAIN res /\ res[key] = orig[key]
  /\ (Len(parts) > 1 /\ parts[1] \in DOMAIN orig /\ orig[parts[1]].k = "object")
       => /\ res[parts[1]].k = "object"
          /\ OffPathEqual(orig[parts[1]].f, res[parts[1]].f, Tail(parts))

\* C18: setByPath returns a new record and leaves the original untouched: the
\* record and every object nested in it have the fields and values they had
\* before the call, and the fields of the result off the path equal those of
\* the record.
C18_SetLeavesOriginalUntouched ==
  Returned("setByPath") =>
    /\ call.result \notin DOMAIN call.before
    /\ \A a \in DOMAIN call.before : call.after[a] = call.before[a]
    /\ Deref(call.after, Ref(call.root)) = Obj(call.obj)
    /\ OffPathEqual(call.obj, Deref(call.after, Ref(call.result)).f, call.path)

\* A value was set below two existing nested objects that have other fields
C18_Witness ==
  /\ Returned("setByPath")
  /\ call.path = <<"a", "b", "a">>
  /\ Len(call.before) >= 3
  /\ "b" \in DOMAIN call.obj
  /\ call.value = Num(7)
  /\ getByPath(call.out, <<"a", "b", "b">>) = Null
  /\ getByPath(call.out, <<"a", "a">>) = Num(0)

\* The value found by walking parts through objects only
RECURSIVE Walk(_, _)
Walk(v, parts) ==
  IF parts = <<>> THEN v
  ELSE IF v.k = "object" /\ parts[1] \in DOMAIN v.f THEN Walk(v.f[parts[1]], Tail(parts))
  ELSE [k |-> "absent"]

\* Some segment of parts is absent: the value that should hold it is not an
\* object, or is an object without that key
SegmentAbsent(obj, parts) ==
  \E i \in DOMAIN parts :
    LET holder == Walk(Obj(obj), SubSeq(parts, 1, i - 1))
    IN holder.k # "object" \/ parts[i] \notin DOMAIN holder.f

\* C19: getByPath returns undefined whenever a segment of the path is absent,
\* that is whenever an intermediate value is not a mapping (null, 0 and the
\* empty string included).
C19_GetOfAbsentSegmentIsUndefined ==
  (Returned("getByPath") /\ SegmentAbsent(call.obj, call.path)) => call.out = Undefined

\* The position of the first record of its with the id
PositionOf(its, id) == CHOOSE i \in DOMAIN its : IdOf(its[i]) = id

\* ids lists the records of its that Test accepts, each once, in the order of
\* its
ListsInOrder(ids, its, Test(_)) ==
  /\ Range(ids) = {IdOf(its[i]) : i \in {i \in DOMAIN its : Test(its[i])}}
  /\ \A i, j \in DOMAIN ids : i < j => PositionOf(its, ids[i]) < PositionOf(its, ids[j])

\* C20: for a collection with unique ids buildTree returns the roots in the
\* order of the input, and the children of every node in the order of the
\* input.
C20_BuildTreeKeepsInputOrder ==
  (Returned("buildTree") /\ DistinctIds(call.items)) =>
    LET its == call.items
        ids == Range(IdsOf(its))
        isRoot(r) == \/ ParentOf(r) = call.rootId
                     \/ call.rootId = Null /\ ParentOf(r) \notin ids
    IN /\ ListsInOrder(call.out.roots, its, isRoot)
       /\ DOMAIN call.out.children = ids
       /\ \A p \in ids :
            ListsInOrder(call.out.children[p], its,
                         LAMBDA r : ParentOf(r) = p /\ ~isRoot(r))

\* The root '1' is listed between its two children '3' and '2', which come
\* out in the order of the input
C20_Witness ==
  /\ Returned("buildTree")
  /\ call.rootId = Null
  /\ IdsOf(call.items) = <<Str("3"), Str("1"), Str("2")>>
  /\ call.out.roots = <<Str("1")>>
  /\ call.out.children[Str("1")] = <<Str("3"), Str("2")>>

\* The records of the roots buildTree returned
RootRecords == {call.out.node[call.out.roots[j]] : j \in DOMAIN call.out.roots}

\* The record has a parentId that is not null and is the id of no record of its
IsOrphan(its, r) == ParentOf(r) # Null /\ ParentOf(r) \notin Range(IdsOf(its))

IsRootLevel(its, r) == ParentOf(r) = Null \/ ParentOf(r) \notin Range(IdsOf(its))

\* The rows are the root-level records of its, in the order of its, at depth 0
RowsAreRootLevel(rows, its) ==
  /\ [j \in DOMAIN rows |-> rows[j].node] = SelectSeq(its, LAMBDA r : IsRootLevel(its, r))
  /\ \A j \in DOMAIN rows : rows[j].depth = 0

IdsAtDepth(rows, lo, hi, d) ==
  LET at == SelectSeq(SubSeq(rows, lo, hi), LAMBDA r : r.depth = d)
  IN [j \in DOMAIN at |-> at[j].id]

\* The last row of the run of rows deeper than row i that follows row i
SpanEnd(rows, i) ==
  CHOOSE j \in i..Len(rows) :
    /\ \A m \in (i + 1)..j : rows[m].depth > rows[i].depth
    /\ j < Len(rows) => rows[j + 1].depth <= rows[i].depth

\* C23: flattenVisibleTree emits nodes in depth-first pre-order: the roots
\* have depth 0 and come in order; the rows that follow a row, as far as they
\* are deeper, hold at depth one more its children in order when its id is in
\* the expansion set and it has a child, and there are no such rows otherwise.
C23_FlattenIsPreOrder ==
  Returned("flattenVisibleTree") =>
    LET rows == call.out
        tree == call.tree
    IN /\ IdsAtDepth(rows, 1, Len(rows), 0) = tree.roots
       /\ \A i \in DOMAIN rows :
            /\ rows[i].depth >= 0
            /\ rows[i].depth <= (IF i = 1 THEN 0 ELSE rows[i - 1].depth + 1)
            /\ IdsAtDepth(rows, i + 1, SpanEnd(rows, i), rows[i].depth + 1)
                 = (IF rows[i].id \in call.expanded /\ tree.children[rows[i].id] # <<>>
                    THEN tree.children[rows[i].id]
                    ELSE <<>>)

\* The scenario of the specification: '1', '1-1', '2' with '1' expanded gives
\* the rows '1', '1-1', '2' at depths 0, 1, 0
C23_Witness ==
  /\ Returned("flattenVisibleTree")
  /\ call.items = Scenario
  /\ call.rootId = Null
  /\ call.expanded = {Str("1")}
  /\ [j \in DOMAIN call.out |-> call.out[j].id] = <<Str("1"), Str("1-1"), Str("2")>>
  /\ [j \in DOMAIN call.out |-> call.out[j].depth] = <<0, 1, 0>>

\* No record of its is on its own parent chain
Acyclic(its) == \A i \in DOMAIN its : IdOf(its[i]) \notin AncestorIds(its, i)

\* ids holds, each once, the ids of the records of its that have the target
\* on their parent chain, and not the target
ListsDescendants(ids, its, target) ==
  /\ Range(ids) = {IdOf(its[i]) : i \in {i \in DOMAIN its : target \in AncestorIds(its, i)}}
  /\ target \notin Range(ids)
  /\ \A i, j \in DOMAIN ids : i # j => ids[i] # ids[j]

C25_DeleteOfLeafRemovesOneRecord ==
  LET n == lastCommit.ev.payload.targetNodeId
      prev == lastCommit.prev
  IN (/\ DeleteCommitted
      /\ ~crashed
      /\ DistinctIds(prev)
      /\ HasItem(prev, n)
      /\ \A i \in DOMAIN prev : ParentOf(prev[i]) # n)
     => /\ Len(items) = Len(prev) - 1
        /\ items = SelectSeq(prev, LAMBDA r : IdOf(r) # n)

\* The state the queued updates lead to when applied in order to the state
\* of the last render
AfterPending ==
  ApplyAll([items |-> items, columns |-> columns, expandedIds |-> expandedIds,
            threw |-> FALSE, prev |-> lastCommit.prev, last |-> lastCommit.ev],
           pending)

\* C29: every operation runs to completion before the caller regains
\* control: whenever operations have returned, getSnapshot (and getData, its
\* data member) reflects their effect.
C29_ReadAfterOperationReflectsIt ==
  (~crashed /\ ~AfterPending.threw) =>
    getSnapshot = [config |-> AfterPending.columns, data |-> AfterPending.items]

\* The last commit applied the delete of a present node to a collection with
\* unique ids in which findAllDescendants ends
DeleteOfDistinctCommitted ==
  /\ DeleteCommitted
  /\ ~crashed
  /\ DistinctIds(lastCommit.prev)
  /\ HasItem(lastCommit.prev, lastCommit.ev.payload.targetNodeId)
  /\ findAllDescendantsReturns(lastCommit.prev, lastCommit.ev.payload.targetNodeId)

\* C30: intents issued back to back are applied in arrival order with no
\* stale data: the allRemovedNodeIds of a delete and the collection after it
\* are those of the delete run on the collection the earlier intents left, so
\* no record whose parentId is the deleted id remains.
C30_BackToBackIntentsSeeNoStaleData ==
  DeleteOfDistinctCommitted =>
    LET p == lastCommit.ev.payload
        n == p.targetNodeId
    IN /\ p.allRemovedNodeIds = <<n>> \o findAllDescendants(lastCommit.prev, n)
       /\ items = WithoutSubtree(lastCommit.prev, n)
       /\ \A i \in DOMAIN items : ParentOf(items[i]) # n

\* The positions of its whose record has the parentId p
ChildPositions(its, p) == {i \in DOMAIN its : ParentOf(its[i]) = p}

\* The record with the id is the last record of its whose parentId is p
IsLastChild(its, id, p) ==
  /\ ChildPositions(its, p) # {}
  /\ \E i \in ChildPositions(its, p) :
       /\ IdOf(its[i]) = id
       /\ \A j \in ChildPositions(its, p) : j <= i

\* C27: a drop classified 'inside' on target T issues a move with
\* newParentId = T and newIndex = the number of children T has, and after it
\* is applied the dragged node is the last child of T.
C27_DropInsideAppendsToTarget ==
  [][\A t \in RowIds :
       (dropPosition = Str("inside") /\ handleDrop(t)) =>
         /\ Last(events').type = "NODE_MOVED"
         /\ Last(events').payload.nodeId = draggedId
         /\ Last(events').payload.newParentId = t
         /\ Last(events').payload.newIndex = Cardinality(ChildPositions(items, t))
         /\ ~crashed'
         /\ IsLastChild(items', draggedId, t)]_vars

\* '2' was dropped inside '1', which had the child '1-1': the move has index
\* 1 and '2' follows '1-1' under '1'
C27_Witness ==
  /\ Len(events) = 1
  /\ events[1].type = "NODE_MOVED"
  /\ events[1].payload.nodeId = Str("2")
  /\ events[1].payload.newParentId = Str("1")
  /\ events[1].payload.newIndex = 1
  /\ Str("1") \in expandedIds
  /\ items = <<Rec(Str("1"), Null), Rec(Str("1-1"), Str("1")), Rec(Str("2"), Str("1"))>>

\* C26: the drop-zone classifier returns one of three zones for every offset
\* y and height h: 'before' exactly when y < 0.35 h, 'after' exactly when
\* y > 0.65 h, 'inside' otherwise, so that y = 0.35 h and y = 0.65 h are
\* 'inside'; the thresholds are stated in twentieths (7/20 and 13/20).
C26_DropZoneThresholds ==
  Returned("handleDragOver") =>
    LET y == call.y
        h == call.height
    IN /\ call.out \in {"before", "inside", "after"}
       /\ call.out = "before" <=> 20 * y < 7 * h
       /\ call.out = "after" <=> 20 * y > 13 * h
       /\ call.out = "inside" <=> (7 * h <= 20 * y /\ 20 * y <= 13 * h)
       /\ (100 * y = 35 * h \/ 100 * y = 65 * h) => call.out = "inside"

\* An offset of 13 in a row of height 20, exactly 0.65 of the height, is
\* 'inside'
C26_Witness ==
  /\ Returned("handleDragOver")
  /\ call.y = 13
  /\ call.height = 20
  /\ call.out = "inside"

\* C28: committing the edit of a cell of a numeric column either emits a
\* field update whose newValue is the number the whole text denotes, or null
\* when the text is empty, or emits nothing.
C28_NumericCellStoresWholeNumberOrNothing ==
  (Returned("TreeCell") /\ call.type = "number" /\ call.out.emit) =>
    \/ call.localValue = "" /\ call.out.newValue = Null
    \/ /\ call.out.newValue.k = "number"
       /\ call.out.newValue # NaN
       /\ NumText(call.out.newValue.n) = call.localValue

\* The ids of the records of its whose parentId is p, in the order of its
ChildIds(its, p) ==
  LET ch == SelectSeq(its, LAMBDA r : ParentOf(r) = p)
  IN [j \in DOMAIN ch |-> IdOf(ch[j])]

\* Among the children of p in its, the record a comes immediately before the
\* record b
ImmediatelyPrecedes(its, p, a, b) ==
  \E j \in 1..(Len(ChildIds(its, p)) - 1) :
    ChildIds(its, p)[j] = a /\ ChildIds(its, p)[j + 1] = b

\* The drop target is neither the dragged node nor one of its descendants
DropTargetOutsideDragged(t) ==
  /\ t # draggedId
  /\ findAllDescendantsReturns(items, draggedId)
  /\ t \notin Range(findAllDescendants(items, draggedId))

\* C31: after a drop of node D classified 'before' (resp. 'after') on a
\* target T that is neither D nor a descendant of D, D has the parent of T
\* and is the sibling immediately before (resp. after) T among the children
\* of that parent, wherever D was before.
C31_DropBesideTargetPlacesNextToIt ==
  [][\A t \in RowIds :
       (handleDrop(t) /\ DropTargetOutsideDragged(t)) =>
         LET p == Prop(FindItem(items, t), "parentId")
         IN /\ dropPosition = Str("before") =>
                 ~crashed' /\ ImmediatelyPrecedes(items', p, draggedId, t)
            /\ dropPosition = Str("after") =>
                 ~crashed' /\ ImmediatelyPrecedes(items', p, t, draggedId)]_vars

\* The user actions of the sheet that edit the collection: a cell edit, a
\* name edit, a delete, an add, and the steps of a drag and drop
EditingUserAction ==
  \/ \E row \in Rows, c \in Range(columns), text \in CellTexts : handleBlur(row, c, text)
  \/ \E row \in Rows, text \in NameTexts : handleNameBlur(row, text)
  \/ \E id \in RowIds : handleDelete(id)
  \/ handleAddNode
  \/ \E id \in RowIds : handleDragStart(id)
  \/ \E id \in RowIds, y \in PointerYs : handleDragOver(id, y)
  \/ \E id \in RowIds : handleDrop(id)

\* C32: when the mode is 'read-only' no user action (cell edit, name edit,
\* delete, add, drag and drop) emits an event or changes the record collection.
C32_ReadOnlyBlocksUserActions ==
  [][(mode = "read-only" /\ EditingUserAction) =>
       (events' = events /\ items' = items)]_vars

\* The rows of the view when every record id is expanded
RowsFullyExpanded(its) == Render(its, Range(IdsOf(its)))

\* C33: in every reachable state, flattening the built tree with every record
\* id expanded yields each record of the collection exactly once: there are as
\* many rows as records and every record is the node of exactly one row.
C33_FullyExpandedViewShowsEachRecordOnce ==
  ~crashed =>
    LET rows == RowsFullyExpanded(items)
    IN /\ Len(rows) = Len(items)
       /\ \A i \in DOMAIN items :
            Cardinality({j \in DOMAIN rows : rows[j].node = items[i]}) = 1

\* The ids findAllDescendants can be called with: the id of the row whose
\* delete button is clicked and the id of the dragged node
DescendantTargets == RowIds \cup (IF Truthy(draggedId) THEN {draggedId} ELSE {})

\* C34: findAllDescendants terminates for every target id on every record
\* collection reachable through the operations of the component: the
\* recursion returns for the id of every record, of every row and of the
\* dragged node.
C34_FindAllDescendantsTerminates ==
  ~crashed =>
    \A id \in Range(IdsOf(items)) \cup DescendantTargets :
       findAllDescendantsReturns(items, id)

\* The recursion returns for every id a delete or a drag-over passes
C34_HandlersNeverHang ==
  ~crashed => \A id \in DescendantTargets : findAllDescendantsReturns(items, id)

\* C35: in every reachable state, every id in the expansion set is the id
\* of a record present in the collection.
C35_ExpandedIdsArePresent ==
  ~crashed => \A x \in expandedIds : HasItem(items, x)

\* C35, amended: an id enters the expansion set only as the id of a record
\* present in the collection at that moment or as the parent id named by a
\* create, so every id in the set is the id of a record that is present, or
\* was present when the id entered, or was named as parent by a create; a
\* delete leaves the set alone.
C35_ExpandedIdsEnterPresent ==
  [][/\ ~crashed' =>
          \A x \in expandedIds' \ expandedIds :
             \/ HasItem(items', x)
             \/ \E e \in Range(events') : e.type = "NODE_CREATED" /\ e.payload.parentId = x
     /\ (\E id \in RowIds : handleDelete(id)) => expandedIds' = expandedIds]_vars

\* An expanded row has been deleted: its id stays in the expansion set
C35_Witness ==
  /\ ~crashed
  /\ lastCommit.ev.type = "NODE_DELETED"
  /\ \E x \in expandedIds : x \in Range(lastCommit.ev.payload.allRemovedNodeIds) /\ ~HasItem(items, x)

\* None of draggedId, dropTargetId and dropPosition is set
DragStateCleared == draggedId = Null /\ dropTargetId = Null /\ dropPosition = Null

\* C36: in every reachable state dropTargetId is null if and only if
\* dropPosition is null, and a non-null dropPosition implies a non-null
\* draggedId; after a drag-end or a drop that issues a move all three are null.
C36_DragStateInvariant ==
  /\ []((dropTargetId = Null <=> dropPosition = Null)
        /\ (dropPosition # Null => draggedId # Null))
  /\ [][(\/ handleDragEnd
         \/ \E t \in RowIds : handleDrop(t) /\ events' # events) => DragStateCleared']_vars

\* A drop has issued a move and left no drag state
C36_Witness ==
  /\ ~crashed
  /\ lastCommit.ev.type = "NODE_MOVED"
  /\ Len(events) > 0
  /\ events[Len(events)].type = "NODE_MOVED"
  /\ DragStateCleared

\* C37: at most one agent request loop is active at a time: a send issued
\* while a request is processing starts no model call and executes no tool.
C37_OneRequestLoopAtATime ==
  /\ [](Len(agent.runs) <= 1 /\ (agent.runs # <<>> => agent.isProcessing))
  /\ [][(agent.isProcessing /\ handleSend) => agent'.runs = agent.runs]_vars

\* A send arrived while a request was processing and was refused
C37_Witness ==
  /\ agent.refusedBusy > 0
  /\ agent.isProcessing
  /\ Len(agent.runs) = 1

\* C38: every accepted agent request terminates: it makes at most 8 model
\* calls and then resets isProcessing to false, whether the model stops
\* calling tools, the loop limit is reached, or a model call or a tool throws.
C38_AcceptedRequestTerminates ==
  /\ [](\A i \in DOMAIN agent.runs : agent.runs[i].modelCalls <= 8)
  /\ [](agent.lastRun.modelCalls <= 8)
  /\ [][agent'.runs # agent.runs /\ Len(agent'.runs) < Len(agent.runs)
          => ~agent'.isProcessing]_vars
  /\ (agent.runs # <<>>) ~> (agent.runs = <<>> /\ ~agent.isProcessing)

\* A request has ended at the loop limit after 8 model calls whose tools all
\* failed
C38_Witness ==
  /\ agent.lastRun.reason = "limit"
  /\ agent.lastRun.modelCalls = 8
  /\ agent.lastRun.toolErrors = agent.lastRun.toolsRun
  /\ agent.lastRun.toolsRun >= 8
  /\ ~agent.isProcessing
  /\ agent.runs = <<>>

=============================================================================
